---------------------------- MODULE Spec2Model ----------------------------
(***************************************************************************)
(* Model of the task-evidence verification agent (sgraphics/latest).       *)
(*                                                                         *)
(*   src/unnamed/part_000  verify_task (module function and                *)
(*                         CommchainAgent method), decrypt_with_nacl,      *)
(*                         retrieve_from_ipfs                              *)
(*   src/utils.py          AiUtils.get_public_key / get_account_id         *)
(*                         State, AiUtils.get_state / save_state           *)
(*   src/agent.py          Actions, the start-up code and agent(env, state)*)
(*                                                                         *)
(* Strings are sequences of Unicode code points, byte strings sequences of *)
(* numbers 0..255, so that prefix tests, replace, UTF-8 encoding and       *)
(* base64 decoding are computed the way the Python code computes them.     *)
(***************************************************************************)
EXTENDS Integers, Sequences, FiniteSets, TLC

VARIABLES
    ENCRYPTION_KEY,        \* part_000:30, the configured decryption secret
    encrypted_data_json,   \* the argument of decrypt_with_nacl
    decrypt_result,        \* what decrypt_with_nacl returned or raised
    signer_private_key,    \* part_000:28, the configured signer key
    signer_public_key,     \* part_000:33, module global
    signer_account_id,     \* part_000:34, module global
    commchain_agent,       \* the CommchainAgent instance of part_000:494
    ledger,                \* the tasks of the contract commchain.testnet
    calls,                 \* the verify_task calls, one record per call slot
    slots,                 \* the call slots in use: how many calls may overlap
    cid,                   \* the argument of retrieve_from_ipfs
    gateway_response,      \* what the IPFS gateway answers to a GET
    fetch_result,          \* what retrieve_from_ipfs returned or raised
    state_file,            \* utils.py:13, the file state.json of the dialog agent
    state,                 \* agent.py:377, the State object of the running turn
    turn                   \* what the current run of agent.py did

decryptVars == <<ENCRYPTION_KEY, encrypted_data_json, decrypt_result>>

fetchVars == <<cid, gateway_response, fetch_result>>

dialogVars == <<state_file, state, turn>>

verifyVars ==
    <<signer_private_key, signer_public_key, signer_account_id, commchain_agent,
      ledger, calls, slots>>

vars == <<decryptVars, fetchVars, dialogVars, verifyVars>>

---------------------------------------------------------------------------
(* Bounds of the model.                                                    *)

\* Longest run of the filler character in a configured secret.
MaxKeyLen == 44

\* Task identifiers the ledger may hold: 1..MaxTaskId.
MaxTaskId == 1

\* Most tokens ("storj-", "Qm") an evidence string is made of.
MaxEvidenceParts == 2

\* Longest response body the gateway sends.
MaxBodyLen == 2

\* Longest run of "1" in the base58 text of a signer key.
MaxZeroRun == 36

\* Longest plaintext a producer encrypts.
MaxPlainLen == 2

---------------------------------------------------------------------------
(* Optional values: Python's None against a str.                           *)

None == [present |-> FALSE, val |-> <<>>]

Some(s) == [present |-> TRUE, val |-> s]

\* Python truthiness of an optional string: None and "" are falsy.
Truthy(o) == o.present /\ o.val # <<>>

Rep(c, n) == [i \in 1..n |-> c]

\* str.startswith
StartsWith(s, p) == Len(s) >= Len(p) /\ SubSeq(s, 1, Len(p)) = p

\* "b64:"
B64_PREFIX == <<98, 54, 52, 58>>

---------------------------------------------------------------------------
(* base64.b64decode(s) with validate=False, as CPython's                   *)
(* binascii.a2b_base64 in non-strict mode computes it.                     *)

\* '='
BASE64_PAD == 61

\* table_a2b_base64: the 6-bit value of a character, 64 for a character
\* outside the alphabet.
B64Val(c) ==
    IF c >= 65 /\ c <= 90 THEN c - 65
    ELSE IF c >= 97 /\ c <= 122 THEN c - 71
    ELSE IF c >= 48 /\ c <= 57 THEN c + 4
    ELSE IF c = 43 THEN 62
    ELSE IF c = 47 THEN 63
    ELSE 64

IsData(c) == B64Val(c) < 64

\* quad_pos when character i is read: the data characters read so far, mod 4.
QuadPos(s, i) == Cardinality({j \in 1..(i - 1) : IsData(s[j])}) % 4

\* pads once character i (a '=') is counted: the '=' read since the last
\* data character, which resets pads to 0.
Pads(s, i) ==
    Cardinality({j \in 1..i : /\ s[j] = BASE64_PAD
                              /\ \A k \in j..i : ~IsData(s[k])})

\* The '=' at which a2b_base64 stops reading ("goto done"):
\* quad_pos >= 2 && quad_pos + ++pads >= 4.
PadStops(s, i) ==
    /\ s[i] = BASE64_PAD
    /\ QuadPos(s, i) >= 2
    /\ QuadPos(s, i) + Pads(s, i) >= 4

\* a2b_base64(s, strict_mode=False): characters outside the alphabet are
\* skipped, every four data characters give three bytes, reading stops at
\* sufficient padding, and data left in an unfinished quad at the end of
\* the input is an error.
a2b_base64(s) ==
    LET stops == {i \in 1..Len(s) : PadStops(s, i)}
        stop == IF stops = {} THEN Len(s) + 1
                ELSE CHOOSE i \in stops : \A j \in stops : i <= j
        read == SubSeq(s, 1, stop - 1)
        data == SelectSeq(read, IsData)
        v == [i \in 1..Len(data) |-> B64Val(data[i])]
        n == (Len(data) * 6) \div 8
        out == [k \in 1..n |->
                  LET g == 4 * ((k - 1) \div 3)
                      r == (k - 1) % 3
                  IN  IF r = 0 THEN (v[g + 1] * 4) + (v[g + 2] \div 16)
                      ELSE IF r = 1 THEN ((v[g + 2] % 16) * 16) + (v[g + 3] \div 4)
                      ELSE ((v[g + 3] % 4) * 64) + v[g + 4]]
    IN  IF stops = {} /\ Len(data) % 4 # 0
        THEN [ok |-> FALSE, exc |-> "binascii.Error", bytes |-> <<>>]
        ELSE [ok |-> TRUE, exc |-> "", bytes |-> out]

\* base64.b64decode of a str: the str is first encoded as ASCII (ValueError
\* on any other character), then decoded discarding non-alphabet characters.
b64decode(s) ==
    IF \E i \in 1..Len(s) : s[i] >= 128
    THEN [ok |-> FALSE, exc |-> "ValueError", bytes |-> <<>>]
    ELSE a2b_base64(s)

\* The text of the exception b64decode(s) raises, for an s it fails on.
\* The one message with a parameter carries the number of data characters
\* read, in `count`.
B64Error(s) ==
    LET data == SelectSeq(s, IsData)
    IN  IF \E i \in 1..Len(s) : s[i] >= 128
        THEN [msg |-> "string argument should contain only ASCII characters", count |-> 0]
        ELSE IF Len(data) % 4 = 1
        THEN [msg |-> "Invalid base64-encoded string: number of data characters (count) cannot be 1 more than a multiple of 4",
              count |-> Len(data)]
        ELSE [msg |-> "Incorrect padding", count |-> 0]

\* str.encode("utf-8"), for code points below 2048: the encodings of the
\* characters, concatenated.
RECURSIVE encode_utf8(_)
encode_utf8(s) ==
    IF s = <<>> THEN <<>>
    ELSE IF Len(s) = 1
    THEN (IF s[1] < 128 THEN <<s[1]>>
          ELSE <<192 + (s[1] \div 64), 128 + (s[1] % 64)>>)
    ELSE encode_utf8(SubSeq(s, 1, Len(s) \div 2))
         \o encode_utf8(SubSeq(s, (Len(s) \div 2) + 1, Len(s)))

\* base64.b64encode, what a producer of envelopes applies to each field.
B64Char(v) ==
    IF v < 26 THEN v + 65
    ELSE IF v < 52 THEN v + 71
    ELSE IF v < 62 THEN v - 4
    ELSE IF v = 62 THEN 43
    ELSE 47

b64encode(b) ==
    [k \in 1..(4 * ((Len(b) + 2) \div 3)) |->
        LET g == 3 * ((k - 1) \div 4)
            r == (k - 1) % 4
            b1 == b[g + 1]
            b2 == IF g + 2 <= Len(b) THEN b[g + 2] ELSE 0
            b3 == IF g + 3 <= Len(b) THEN b[g + 3] ELSE 0
        IN  IF r = 0 THEN B64Char(b1 \div 4)
            ELSE IF r = 1 THEN B64Char(((b1 % 4) * 16) + (b2 \div 16))
            ELSE IF r = 2
            THEN (IF g + 2 > Len(b) THEN BASE64_PAD
                  ELSE B64Char(((b2 % 16) * 4) + (b3 \div 64)))
            ELSE (IF g + 3 > Len(b) THEN BASE64_PAD ELSE B64Char(b3 % 64))]

---------------------------------------------------------------------------
(* The cryptographic library (hashlib, PyNaCl), which is not part of the   *)
(* repository: modelled by what its functions guarantee.  Digest stands    *)
(* for a collision-resistant digest of a byte string.                      *)

\* nacl.public.PrivateKey.SIZE
PrivateKeySIZE == 32

\* nacl.public.PublicKey.SIZE
PublicKeySIZE == 32

\* nacl.public.Box.NONCE_SIZE
NONCE_SIZE == 24

\* crypto_box_MACBYTES
MACBYTES == 16

RECURSIVE WeightedSum(_, _, _)
WeightedSum(b, lo, hi) ==
    IF lo > hi THEN 0
    ELSE IF lo = hi THEN ((b[lo] + 1) * lo) % 65521
    ELSE (WeightedSum(b, lo, (lo + hi) \div 2)
          + WeightedSum(b, ((lo + hi) \div 2) + 1, hi)) % 65521

Digest(b, h) == (WeightedSum(b, 1, Len(b)) + h + Len(b)) % 65521

\* hashlib.sha256(b).digest(): 32 bytes, a function of b alone.
sha256(b) ==
    LET h == Digest(b, 7)
    IN  [i \in 1..32 |-> IF i = 1 THEN h \div 256
                         ELSE IF i = 2 THEN h % 256
                         ELSE ((h * i) + Len(b)) % 256]

\* PrivateKey.public_key: the Curve25519 public key of a private key.
ScalarBase(sk) == [i \in 1..PublicKeySIZE |-> ((sk[i] * 5) + 3) % 256]

\* Box(private_key, public_key): the shared key, the same for
\* (sk_a, pk_b) and (sk_b, pk_a).
BoxSharedKey(sk, pk) ==
    [i \in 1..PublicKeySIZE |-> (ScalarBase(sk)[i] + pk[i]) % 256]

KeyStream(k, n, i) == (k[((i - 1) % PublicKeySIZE) + 1] + n[((i - 1) % NONCE_SIZE) + 1] + i) % 256

\* The authenticator of a ciphertext under a shared key and a nonce.
BoxTag(k, n, data) ==
    LET h == Digest(k \o n \o data, 11)
    IN  [j \in 1..MACBYTES |-> IF j = 1 THEN h \div 256
                               ELSE IF j = 2 THEN h % 256
                               ELSE (h + j) % 256]

\* Box.encrypt(plaintext, nonce).ciphertext: authenticator, then data.
BoxEncrypt(k, n, pt) ==
    LET data == [i \in 1..Len(pt) |-> (pt[i] + KeyStream(k, n, i)) % 256]
    IN  BoxTag(k, n, data) \o data

\* Box.decrypt(ciphertext, nonce): ValueError on a nonce of the wrong size,
\* CryptoError when the authenticator does not verify, else the plaintext.
BoxDecrypt(k, n, ct) ==
    IF Len(n) # NONCE_SIZE
    THEN [ok |-> FALSE, exc |-> "nacl.exceptions.ValueError",
          msg |-> "The nonce must be exactly 24 bytes long", bytes |-> <<>>]
    ELSE IF Len(ct) < MACBYTES
    THEN [ok |-> FALSE, exc |-> "nacl.exceptions.CryptoError",
          msg |-> "An error occurred trying to decrypt the message", bytes |-> <<>>]
    ELSE LET tag == SubSeq(ct, 1, MACBYTES)
             data == SubSeq(ct, MACBYTES + 1, Len(ct))
         IN  IF tag # BoxTag(k, n, data)
             THEN [ok |-> FALSE, exc |-> "nacl.exceptions.CryptoError",
                   msg |-> "An error occurred trying to decrypt the message",
                   bytes |-> <<>>]
             ELSE [ok |-> TRUE, exc |-> "", msg |-> "",
                   bytes |-> [i \in 1..Len(data) |->
                                (data[i] + 256 - KeyStream(k, n, i)) % 256]]

---------------------------------------------------------------------------
(* AiUtils.get_public_key, utils.py:65-76, with the base58 package's       *)
(* b58decode and b58encode computed on byte strings.                       *)

\* str.replace(old, ""): every non-overlapping occurrence of old, found
\* from the left, is removed.
RECURSIVE Replace(_, _)
Replace(s, old) ==
    IF Len(s) < Len(old) THEN s
    ELSE IF StartsWith(s, old) THEN Replace(SubSeq(s, Len(old) + 1, Len(s)), old)
    ELSE <<Head(s)>> \o Replace(Tail(s), old)

\* "ed25519:"
ED25519_PREFIX == <<101, 100, 50, 53, 53, 49, 57, 58>>

\* base58.BITCOIN_ALPHABET
B58_ALPHABET ==
    <<49, 50, 51, 52, 53, 54, 55, 56, 57, 65, 66, 67, 68, 69, 70, 71, 72, 74, 75,
      76, 77, 78, 80, 81, 82, 83, 84, 85, 86, 87, 88, 89, 90, 97, 98, 99, 100, 101,
      102, 103, 104, 105, 106, 107, 109, 110, 111, 112, 113, 114, 115, 116, 117,
      118, 119, 120, 121, 122>>

IsB58(c) == \E i \in 1..Len(B58_ALPHABET) : B58_ALPHABET[i] = c

B58Val(c) == (CHOOSE i \in 1..Len(B58_ALPHABET) : B58_ALPHABET[i] = c) - 1

\* The number of leading elements of s equal to c.
LeadingCount(s, c) ==
    Cardinality({i \in 1..Len(s) : \A j \in 1..i : s[j] = c})

\* n * m + carry on a big-endian byte string n without leading zeros.
RECURSIVE MulAdd(_, _, _)
MulAdd(n, m, carry) ==
    IF n = <<>>
    THEN (IF carry = 0 THEN <<>>
          ELSE IF carry < 256 THEN <<carry>>
          ELSE <<carry \div 256, carry % 256>>)
    ELSE LET x == (n[Len(n)] * m) + carry
         IN  MulAdd(SubSeq(n, 1, Len(n) - 1), m, x \div 256) \o <<x % 256>>

\* b58decode_int: decimal = decimal * 58 + map[char], char by char from
\* the left, so the value of v is the value of all but its last character,
\* times 58, plus the last character's.
RECURSIVE B58DecodeInt(_)
B58DecodeInt(v) ==
    IF v = <<>> THEN <<>>
    ELSE MulAdd(B58DecodeInt(SubSeq(v, 1, Len(v) - 1)), 58, B58Val(v[Len(v)]))

\* base58.b58decode: a zero byte for each leading '1', then the big-endian
\* bytes of the number the other characters spell; ValueError on a
\* character outside the alphabet.
b58decode(v) ==
    LET zeros == LeadingCount(v, B58_ALPHABET[1])
        rest == SubSeq(v, zeros + 1, Len(v))
    IN  IF \E i \in 1..Len(rest) : ~IsB58(rest[i])
        THEN [ok |-> FALSE, exc |-> "ValueError", bytes |-> <<>>]
        ELSE [ok |-> TRUE, exc |-> "",
              bytes |-> Rep(0, zeros) \o B58DecodeInt(rest)]

\* The quotient digits (with leading zeros) of n by 58, by long division
\* from the most significant byte, and the remainder, as <<q, r>>.
RECURSIVE DivMod58(_, _, _, _)
DivMod58(n, i, rem, q) ==
    IF i > Len(n) THEN <<q, rem>>
    ELSE LET x == (rem * 256) + n[i]
         IN  DivMod58(n, i + 1, x % 58, Append(q, x \div 58))

StripZeros(n) == SubSeq(n, LeadingCount(n, 0) + 1, Len(n))

\* b58encode_int: while i: i, idx = divmod(i, 58); string = alphabet[idx] + string
RECURSIVE B58EncodeInt(_, _)
B58EncodeInt(n, out) ==
    IF n = <<>> THEN out
    ELSE LET d == DivMod58(n, 1, 0, <<>>)
         IN  B58EncodeInt(StripZeros(d[1]), <<B58_ALPHABET[d[2] + 1]>> \o out)

\* base58.b58encode: a '1' for each leading zero byte, then the digits.
b58encode(v) ==
    Rep(B58_ALPHABET[1], LeadingCount(v, 0)) \o B58EncodeInt(StripZeros(v), <<>>)

\* ed25519.SigningKey(seed).get_verifying_key().to_bytes(): the 32-byte
\* public key of a 32-byte seed, a function of the seed alone (the curve
\* arithmetic itself is the ed25519 package's).
VerifyingKeyBytes(seed) == [i \in 1..32 |-> ((seed[i] * 7) + (3 * i) + 1) % 256]

\* get_public_key taking the last 32 bytes of the decoded key as the seed.
get_public_key_last32(extended_private_key) ==
    IF ~extended_private_key.present
    THEN [ok |-> FALSE, exc |-> "AttributeError", val |-> <<>>]
    ELSE LET decoded == b58decode(Replace(extended_private_key.val, ED25519_PREFIX))
             n == Len(decoded.bytes)
         IN  IF ~decoded.ok \/ n < 32
             THEN [ok |-> FALSE, exc |-> "ValueError", val |-> <<>>]
             ELSE [ok |-> TRUE, exc |-> "",
                   val |-> b58encode(VerifyingKeyBytes(SubSeq(decoded.bytes, n - 31, n)))]

\* get_public_key(extended_private_key): remove "ed25519:", base58-decode,
\* keep the first 32 bytes as the seed, derive the verifying key and
\* base58-encode it.  None has no replace (AttributeError); SigningKey
\* rejects a seed that is not 32 bytes long (ValueError).
get_public_key(extended_private_key) ==
    IF ~extended_private_key.present
    THEN [ok |-> FALSE, exc |-> "AttributeError", val |-> <<>>]
    ELSE LET private_key_base58 == Replace(extended_private_key.val, ED25519_PREFIX)
             decoded == b58decode(private_key_base58)
             secret_key == SubSeq(decoded.bytes, 1,
                                  IF Len(decoded.bytes) < 32 THEN Len(decoded.bytes) ELSE 32)
         IN  IF ~decoded.ok THEN [ok |-> FALSE, exc |-> "ValueError", val |-> <<>>]
             ELSE IF Len(secret_key) # 32
             THEN [ok |-> FALSE, exc |-> "ValueError", val |-> <<>>]
             ELSE [ok |-> TRUE, exc |-> "",
                   val |-> b58encode(VerifyingKeyBytes(secret_key))]

---------------------------------------------------------------------------
(* decrypt_with_nacl, part_000:129-192.                                    *)

\* HasRequiredFields with the nonce left out of the test.
HasRequiredFieldsNoNonce(payload) ==
    /\ Truthy(payload.encryptedData)
    /\ Truthy(payload.senderPublicKey)

\* The required-fields test: payload.get(f) is falsy for an absent field
\* and for an empty string.
HasRequiredFields(payload) ==
    /\ Truthy(payload.nonce)
    /\ Truthy(payload.encryptedData)
    /\ Truthy(payload.senderPublicKey)

\* KeyConfigured with the test of the secret left out.
KeyConfiguredUnchecked(key) == TRUE

\* `if not ENCRYPTION_KEY`: None and "" both count as not configured.
KeyConfigured(key) == Truthy(key)

\* KeyBytes decoding every secret as base64, prefixed or not.
KeyBytesAlwaysDecode(key) == b64decode(key)

\* private_key_bytes: the whole configured string is handed to b64decode
\* when it starts with "b64:", else its UTF-8 bytes are taken.
KeyBytes(key) ==
    IF StartsWith(key, B64_PREFIX)
    THEN b64decode(key)
    ELSE [ok |-> TRUE, exc |-> "", bytes |-> encode_utf8(key)]

\* NormalizeKey hashing only key material that is too short.
NormalizeKeyShortOnly(private_key_bytes) ==
    IF Len(private_key_bytes) < PrivateKeySIZE
    THEN sha256(private_key_bytes)
    ELSE private_key_bytes

\* Key material of the wrong length is replaced by its SHA-256 digest.
NormalizeKey(private_key_bytes) ==
    IF Len(private_key_bytes) # PrivateKeySIZE
    THEN sha256(private_key_bytes)
    ELSE private_key_bytes

\* An exception leaving the function body, with the steps done before it
\* and the values of the locals private_key_bytes and private_key.
Raise(exc, msg, steps, pkb, pk) ==
    [raised |-> TRUE, exc |-> exc, msg |-> msg, count |-> 0, value |-> <<>>,
     steps |-> steps, private_key_bytes |-> pkb, private_key |-> pk]

\* b64decode(s) raising inside the function body.
RaiseB64(s, steps, pkb, pk) ==
    [Raise(b64decode(s).exc, B64Error(s).msg, steps, pkb, pk)
        EXCEPT !.count = B64Error(s).count]

Return(value, steps, pkb, pk) ==
    [raised |-> FALSE, exc |-> "", msg |-> "", count |-> 0, value |-> value,
     steps |-> steps, private_key_bytes |-> pkb, private_key |-> pk]

\* except Exception as e: print(...); raise
DecryptExcept(r) ==
    IF r.raised THEN [r EXCEPT !.steps = Append(@, "print")] ELSE r

\* DecryptBox rejecting a ciphertext shorter than the authenticator with an
\* error of its own.
DecryptBoxLengthCheck(payload, steps, pkb, pk) ==
    LET spk == b64decode(payload.senderPublicKey.val)
        nonce == b64decode(payload.nonce.val)
        data == b64decode(payload.encryptedData.val)
        s4 == steps \o <<"b64decode senderPublicKey", "PublicKey", "b64decode nonce",
                         "b64decode encryptedData", "Box", "box.decrypt">>
    IN  IF ~spk.ok \/ ~nonce.ok \/ ~data.ok \/ Len(spk.bytes) # PublicKeySIZE
        THEN Raise("Exception", "Invalid payload", steps, pkb, pk)
        ELSE IF Len(data.bytes) < MACBYTES
        THEN Raise("Exception", "Ciphertext too short", steps, pkb, pk)
        ELSE LET pt == BoxDecrypt(BoxSharedKey(pk, spk.bytes), nonce.bytes, data.bytes)
             IN  IF ~pt.ok THEN Raise(pt.exc, pt.msg, s4, pkb, pk)
                 ELSE Return(pt.bytes, s4, pkb, pk)

\* Lines 174-188: the sender's key, the nonce and the ciphertext are
\* decoded, the box is built and the ciphertext decrypted.
DecryptBox(payload, steps, pkb, pk) ==
    LET spk == b64decode(payload.senderPublicKey.val)
        s1 == Append(steps, "b64decode senderPublicKey")
        nonce == b64decode(payload.nonce.val)
        s2 == Append(Append(s1, "PublicKey"), "b64decode nonce")
        data == b64decode(payload.encryptedData.val)
        s3 == Append(s2, "b64decode encryptedData")
        s4 == Append(Append(s3, "Box"), "box.decrypt")
    IN  IF ~spk.ok THEN RaiseB64(payload.senderPublicKey.val, s1, pkb, pk)
        ELSE IF Len(spk.bytes) # PublicKeySIZE
        THEN Raise("nacl.exceptions.ValueError", "The public key must be exactly 32 bytes long",
                   Append(s1, "PublicKey"), pkb, pk)
        ELSE IF ~nonce.ok THEN RaiseB64(payload.nonce.val, s2, pkb, pk)
        ELSE IF ~data.ok THEN RaiseB64(payload.encryptedData.val, s3, pkb, pk)
        ELSE LET pt == BoxDecrypt(BoxSharedKey(pk, spk.bytes), nonce.bytes, data.bytes)
             IN  IF ~pt.ok THEN Raise(pt.exc, pt.msg, s4, pkb, pk)
                 ELSE Return(pt.bytes, s4, pkb, pk)

\* Lines 153-172: the configured secret becomes the private key.
DecryptKey(payload, key, steps) ==
    IF ~KeyConfigured(key)
    THEN Raise("Exception", "Private key not found in environment variables",
               steps, <<>>, <<>>)
    ELSE LET kb == KeyBytes(key.val)
             s1 == Append(steps, "key decode")
         IN  IF ~kb.ok THEN RaiseB64(key.val, s1, <<>>, <<>>)
             ELSE LET pk == NormalizeKey(kb.bytes)
                      s2 == IF pk # kb.bytes THEN Append(s1, "sha256") ELSE s1
                  IN  DecryptBox(payload, Append(s2, "PrivateKey"), kb.bytes, pk)

decrypt_with_nacl(json, key) ==
    DecryptExcept(
        IF json.kind = "invalid"
        THEN Raise("json.JSONDecodeError", "json", <<"json.loads">>, <<>>, <<>>)
        ELSE IF json.kind # "object"
        THEN Raise("AttributeError", "get", <<"json.loads">>, <<>>, <<>>)
        ELSE IF ~HasRequiredFields(json)
        THEN Raise("Exception",
                   "Invalid payload format - missing required fields for asymmetric decryption",
                   <<"json.loads", "check fields">>, <<>>, <<>>)
        ELSE DecryptKey(json, key, <<"json.loads", "check fields", "check key">>))

---------------------------------------------------------------------------
(* The ledger, the configured signer key and the network, as verify_task   *)
(* sees them.                                                              *)

\* "storj-"
STORJ_PREFIX == <<115, 116, 111, 114, 106, 45>>

\* "https://"
HTTPS == <<104, 116, 116, 112, 115, 58, 47, 47>>

\* ".ipfs.w3s.link"
IPFS_GATEWAY == <<46, 105, 112, 102, 115, 46, 119, 51, 115, 46, 108, 105, 110, 107>>

\* "signer.near", the account api.fastnear.com knows for the signer's key.
SIGNER_ACCOUNT == <<115, 105, 103, 110, 101, 114, 46, 110, 101, 97, 114>>

\* The two call slots: verify_task calls that may be in flight together.
Calls == {"call_a", "call_b"}

TaskIds == 1..MaxTaskId

\* Evidence strings: up to n tokens, each "storj-" or "Qm".
RECURSIVE EvidenceStrings(_)
EvidenceStrings(n) ==
    IF n = 0 THEN {<<>>}
    ELSE LET prev == EvidenceStrings(n - 1)
         IN  prev \cup {e \o t : e \in prev, t \in {STORJ_PREFIX, <<81, 109>>}}

\* What get_task returns: nothing, or a dict of which `keys` are present.
NoTask == [exists |-> FALSE, keys |-> {}, status |-> 0, result |-> "", evidence |-> None]

Task(keys, status, result, evidence) ==
    [exists |-> TRUE, keys |-> keys, status |-> status, result |-> result,
     evidence |-> evidence]

PendingTasks ==
    {Task({"status", "evidence"}, 0, "", Some(e)) : e \in EvidenceStrings(MaxEvidenceParts)}

VerifiedTask == Task({"status", "result", "evidence"}, 1, "ok", Some(STORJ_PREFIX \o <<81, 109>>))

\* Records that lack a key the code reads, or hold null evidence.
MalformedTasks ==
    {Task({"status"}, 0, "", None),
     Task({"status", "evidence"}, 0, "", None),
     Task({"evidence"}, 0, "", Some(<<81, 109>>))}

LedgerEntries == {NoTask, VerifiedTask} \cup PendingTasks \cup MalformedTasks

\* The task_id arguments: "1".."9" up to one past the ledger's last
\* identifier, "01" and "x".
TaskIdStrings ==
    {<<48 + n>> : n \in 1..(MaxTaskId + 1)} \cup {<<48, 49>>, <<120>>}

\* int(task_id) for a string of decimal digits; ValueError otherwise.
RECURSIVE DigitsValue(_)
DigitsValue(s) ==
    IF s = <<>> THEN 0
    ELSE (DigitsValue(SubSeq(s, 1, Len(s) - 1)) * 10) + (s[Len(s)] - 48)

int(s) ==
    IF s # <<>> /\ \A i \in 1..Len(s) : s[i] >= 48 /\ s[i] <= 57
    THEN [ok |-> TRUE, exc |-> "", val |-> DigitsValue(s)]
    ELSE [ok |-> FALSE, exc |-> "ValueError", val |-> 0]

\* Configured signer keys: none, "ed25519:" and the base58 of 31 zero bytes
\* and a one, and "ed25519:11" (two bytes, too short for a seed).
SignerKeys ==
    {None,
     Some(ED25519_PREFIX \o Rep(49, 31) \o <<50>>),
     Some(ED25519_PREFIX \o <<49, 49>>)}

\* Extended private keys with and without the "ed25519:" prefix whose
\* base58 text is a run of "1" (a zero byte each) and a last character
\* "2", "3" or "z": they decode to 30 bytes and more.
ExtendedKeys ==
    {Some(p \o Rep(49, n) \o <<t>>) :
        p \in {<<>>, ED25519_PREFIX}, n \in 29..MaxZeroRun, t \in {50, 51, 122}}

AllSignerKeys == SignerKeys \cup ExtendedKeys

\* get_public_key of each configured key, computed once.
SignerPublicKeys == [k \in AllSignerKeys |-> get_public_key(k)]

\* What api.fastnear.com answers to an account lookup.
AccountResponses == {"http_error", "no_account", "account"}

\* AiUtils.get_account_id, utils.py:53-63: one GET; raise_for_status raises
\* HTTPError, an empty account_ids list gives None, else the first account.
get_account_id(public_key, response) ==
    IF response = "http_error" THEN [ok |-> FALSE, exc |-> "HTTPError", val |-> None]
    ELSE IF response = "no_account" THEN [ok |-> TRUE, exc |-> "", val |-> None]
    ELSE [ok |-> TRUE, exc |-> "", val |-> Some(SIGNER_ACCOUNT)]

---------------------------------------------------------------------------
(* verify_task, part_000:195-251, and CommchainAgent.verify_task,          *)
(* part_000:387-428.  A call runs to its first await (acc.startup()), then *)
(* to its second (acc.view_function), then to its return.                  *)

NoOutcome == [kind |-> "", task_id |-> <<>>, url |-> <<>>, result |-> "", error |-> ""]

IdleCall ==
    [pc |-> "idle", variant |-> "", task_id |-> <<>>, account_id |-> None, id |-> 0,
     looked_up |-> FALSE, result |-> NoTask, outcome |-> NoOutcome, raised |-> FALSE,
     stages |-> <<>>, net |-> <<>>, failed_stage |-> "",
     reads |-> {}, writes |-> {}]

\* return <string>: the call ends with an outcome for its caller.
ReturnOutcome(c, kind, url, result, error) ==
    [c EXCEPT !.pc = "done",
              !.outcome = [kind |-> kind, task_id |-> c.task_id, url |-> url,
                           result |-> result, error |-> error]]

\* VerifyExcept letting the exception leave verify_task.
VerifyExceptReraise(c, exc, stage) ==
    [c EXCEPT !.pc = "done", !.raised = TRUE, !.failed_stage = stage]

\* The outer handler, 250-251 and 427-428:
\* except Exception as e: return f"Error verifying task: {str(e)}"
VerifyExcept(c, exc, stage) ==
    [ReturnOutcome(c, "Error verifying task", <<>>, "", exc) EXCEPT !.failed_stage = stage]

\* The inner handler, 248-249 and 425-426:
\* except Exception as evidence_error: return f"Error processing task evidence: ..."
EvidenceExcept(c, exc) ==
    [ReturnOutcome(c, "Error processing task evidence", <<>>, "", exc)
        EXCEPT !.failed_stage = "Locate"]

\* IsVerified never recognising a verified task.
IsVerifiedNever(result) == FALSE

\* result["status"] == 1
IsVerified(result) == result.status = 1

\* actual_cid = evidence.replace("storj-", "")
actual_cid(evidence) == Replace(evidence, STORJ_PREFIX)

\* ipfs_url = f"https://{actual_cid}.ipfs.w3s.link"
ipfs_url(c) == HTTPS \o c \o IPFS_GATEWAY

\* Lines 233-249: the evidence is read, the CID extracted and the URL
\* returned; a missing or null evidence is caught by the inner handler.
LocateEvidence(c, result) ==
    LET c1 == [c EXCEPT !.stages = Append(@, "Locate")]
    IN  IF "evidence" \notin result.keys THEN EvidenceExcept(c1, "KeyError")
        ELSE IF ~result.evidence.present THEN EvidenceExcept(c1, "AttributeError")
        ELSE ReturnOutcome(c1, "Task found", ipfs_url(actual_cid(result.evidence.val)),
                           "", "")

\* Lines 225-251, once view_function has returned `result`.
AfterLookup(c, result) ==
    LET c1 == [c EXCEPT !.looked_up = TRUE, !.result = result]
    IN  IF ~result.exists THEN ReturnOutcome(c1, "Task not found", <<>>, "", "")
        ELSE IF "status" \notin result.keys THEN VerifyExcept(c1, "KeyError", "ShortCircuit")
        ELSE IF IsVerified(result)
        THEN (IF "result" \notin result.keys
              THEN VerifyExcept(c1, "KeyError", "ShortCircuit")
              ELSE ReturnOutcome(c1, "Task already verified", <<>>, result.result, ""))
        ELSE LocateEvidence(c1, result)

\* Lines 209-218 of the module function, up to `await acc.startup()`: the
\* globals are filled in when signer_account_id is falsy.  Gives the call,
\* signer_public_key and signer_account_id after the step; the call notes
\* the module globals and instance attributes it reads and assigns.
FunctionBegin(c, key, pub, acct, response) ==
    LET r1 == [c EXCEPT !.reads = {"signer_account_id"}]
    IN  IF Truthy(acct)
        THEN [call |-> [r1 EXCEPT !.pc = "startup", !.account_id = acct,
                                  !.reads = @ \cup {"signer_private_key"}],
              pub |-> pub, acct |-> acct]
        ELSE LET pk == SignerPublicKeys[key]
                 a == get_account_id(pk.val, response)
                 r2 == [r1 EXCEPT !.reads = @ \cup {"signer_private_key"}]
                 w1 == [r2 EXCEPT !.writes = {"signer_public_key"},
                                  !.reads = @ \cup {"signer_public_key"},
                                  !.net = Append(@, "GET api.fastnear.com public_key")]
             IN  IF ~pk.ok
                 THEN [call |-> VerifyExcept(r2, pk.exc, "Key"), pub |-> pub, acct |-> acct]
                 ELSE IF ~a.ok
                 THEN [call |-> VerifyExcept(w1, a.exc, "Account"),
                       pub |-> Some(pk.val), acct |-> acct]
                 ELSE [call |-> [w1 EXCEPT !.pc = "startup", !.account_id = a.val,
                                           !.writes = @ \cup {"signer_account_id"}],
                       pub |-> Some(pk.val), acct |-> a.val]

\* verify_task(task_id) is called and runs to its first await.
verify_task(p) ==
    /\ p \in slots
    /\ calls[p].pc = "idle"
    /\ \E task_id \in TaskIdStrings, response \in AccountResponses :
         LET c == [IdleCall EXCEPT !.variant = "function", !.task_id = task_id]
             b == FunctionBegin(c, signer_private_key, signer_public_key,
                                signer_account_id, response)
         IN  /\ calls' = [calls EXCEPT ![p] = b.call]
             /\ signer_public_key' = b.pub
             /\ signer_account_id' = b.acct
    /\ UNCHANGED <<decryptVars, fetchVars, dialogVars, signer_private_key, commchain_agent, ledger, slots>>

\* agent.verify_task(task_id) is called on the CommchainAgent instance and
\* runs to its first await.
CommchainAgent_verify_task(p) ==
    /\ p \in slots
    /\ calls[p].pc = "idle"
    /\ commchain_agent.created
    /\ \E task_id \in TaskIdStrings :
         calls' = [calls EXCEPT ![p] =
                      [IdleCall EXCEPT !.variant = "method", !.task_id = task_id,
                                       !.pc = "startup",
                                       !.account_id = commchain_agent.signer_account_id,
                                       !.reads = {"self.signer_account_id",
                                                  "self.signer_private_key"}]]
    /\ UNCHANGED <<decryptVars, fetchVars, dialogVars, signer_private_key, signer_public_key,
                   signer_account_id, commchain_agent, ledger, slots>>

\* `await acc.startup()` completes or raises; then int(task_id) is
\* evaluated and the ledger read get_task is issued.
AccountStartup(p) ==
    /\ calls[p].pc = "startup"
    /\ \E started \in BOOLEAN :
         LET c == calls[p]
             id == int(c.task_id)
         IN  calls' = [calls EXCEPT ![p] =
                IF ~started THEN VerifyExcept(c, "startup error", "Startup")
                ELSE IF ~id.ok THEN VerifyExcept(c, id.exc, "Lookup")
                ELSE [c EXCEPT !.pc = "lookup", !.id = id.val,
                               !.stages = Append(@, "Lookup"),
                               !.net = Append(@, "view_function get_task")]]
    /\ UNCHANGED <<decryptVars, fetchVars, dialogVars, signer_private_key, signer_public_key,
                   signer_account_id, commchain_agent, ledger, slots>>

\* ViewFunction answering from what another call has read for the same id.
ViewFunctionCached(p) ==
    /\ calls[p].pc = "lookup"
    /\ \E answered \in BOOLEAN :
         LET c == calls[p]
             cached == {q \in Calls \ {p} : calls[q].looked_up /\ calls[q].id = c.id}
             result == IF cached # {} THEN calls[CHOOSE q \in cached : TRUE].result
                       ELSE IF c.id \in TaskIds THEN ledger[c.id] ELSE NoTask
         IN  calls' = [calls EXCEPT ![p] =
                IF ~answered THEN VerifyExcept(c, "rpc error", "Lookup")
                ELSE AfterLookup(c, result)]
    /\ UNCHANGED <<decryptVars, fetchVars, dialogVars, signer_private_key, signer_public_key,
                   signer_account_id, commchain_agent, ledger, slots>>

\* ViewFunction recording the task as verified once its evidence is located.
ViewFunctionMarksVerified(p) ==
    /\ calls[p].pc = "lookup"
    /\ \E answered \in BOOLEAN :
         LET c == calls[p]
             result == IF c.id \in TaskIds THEN ledger[c.id] ELSE NoTask
             after == IF ~answered THEN VerifyExcept(c, "rpc error", "Lookup")
                      ELSE AfterLookup(c, result)
         IN  /\ calls' = [calls EXCEPT ![p] = after]
             /\ ledger' = IF after.outcome.kind = "Task found"
                          THEN [ledger EXCEPT ![c.id] = VerifiedTask] ELSE ledger
    /\ UNCHANGED <<decryptVars, fetchVars, dialogVars, signer_private_key, signer_public_key,
                   signer_account_id, commchain_agent, slots>>

\* `await acc.view_function(...)` returns the task as the ledger holds it
\* now, or raises; the call then runs to its return.
ViewFunction(p) ==
    /\ calls[p].pc = "lookup"
    /\ \E answered \in BOOLEAN :
         LET c == calls[p]
             result == IF c.id \in TaskIds THEN ledger[c.id] ELSE NoTask
         IN  calls' = [calls EXCEPT ![p] =
                IF ~answered THEN VerifyExcept(c, "rpc error", "Lookup")
                ELSE AfterLookup(c, result)]
    /\ UNCHANGED <<decryptVars, fetchVars, dialogVars, signer_private_key, signer_public_key,
                   signer_account_id, commchain_agent, ledger, slots>>

\* The caller takes the outcome; the slot is free for another call.
CallReturn(p) ==
    /\ calls[p].pc = "done"
    /\ calls' = [calls EXCEPT ![p] = IdleCall]
    /\ UNCHANGED <<decryptVars, fetchVars, dialogVars, signer_private_key, signer_public_key,
                   signer_account_id, commchain_agent, ledger, slots>>

\* agent(), part_000:261-266: the globals are set from the configured key;
\* an exception is caught at 320 and leaves what was not yet assigned.
agent ==
    /\ \E response \in AccountResponses :
         LET pk == SignerPublicKeys[signer_private_key]
             a == get_account_id(pk.val, response)
         IN  /\ signer_public_key' = IF pk.ok THEN Some(pk.val) ELSE signer_public_key
             /\ signer_account_id' = IF pk.ok /\ a.ok THEN a.val ELSE signer_account_id
    /\ UNCHANGED <<decryptVars, fetchVars, dialogVars, signer_private_key, commchain_agent,
                 ledger, calls, slots>>

\* CommchainAgent.__init__, part_000:324-334: the instance exists once
\* get_public_key and get_account_id have returned.
CommchainAgent_init ==
    /\ ~commchain_agent.created
    /\ \E response \in AccountResponses :
         LET pk == SignerPublicKeys[signer_private_key]
             a == get_account_id(pk.val, response)
         IN  /\ pk.ok
             /\ a.ok
             /\ commchain_agent' = [created |-> TRUE, signer_public_key |-> Some(pk.val),
                                    signer_account_id |-> a.val]
    /\ UNCHANGED <<decryptVars, fetchVars, dialogVars, signer_private_key, signer_public_key,
                   signer_account_id, ledger, calls, slots>>

---------------------------------------------------------------------------
(* The dialog agent of src/agent.py: State (utils.py:25-45), get_state and *)
(* save_state (utils.py:261-276), Actions (agent.py:370-374).  A Python    *)
(* value is a record [kind, s, n]: kind is its type, s its text, n its     *)
(* number; a JSON value of state.json is such a record with JSON's kinds.  *)

PyNone == [kind |-> "NoneType", s |-> "", n |-> 0]

PyStr(s) == [kind |-> "str", s |-> s, n |-> 0]

PyInt(n) == [kind |-> "int", s |-> "", n |-> n]

PyFloat(n) == [kind |-> "float", s |-> "", n |-> n]

\* The token price list fetch_url returns (utils.py:221-225).
PyDict == [kind |-> "dict", s |-> "", n |-> 0]

\* An attribute of the object, or a key of a dict, that is not there.
Missing == [kind |-> "missing", s |-> "", n |-> 0]

\* The names of the members of Actions; each member's value is its name.
ActionNames == {"GET_USER_DATA", "NEAR_SHOW_ACCOUNT", "NEAR_TRANSFER", "NEAR_STAKE"}

\* The member of Actions with this name.
Member(name) == [kind |-> "Actions", s |-> name, n |-> 0]

\* Actions(value): the member with this value, ValueError when there is none.
Actions(value) ==
    IF value.kind = "Actions"
    THEN [raised |-> "", value |-> value]
    ELSE IF value.kind = "str" /\ value.s \in ActionNames
         THEN [raised |-> "", value |-> Member(value.s)]
         ELSE [raised |-> "ValueError", value |-> value]

\* Python's truth value of v, the test of `if v:` and of `and`.
bool(v) ==
    CASE v.kind = "NoneType" -> FALSE
      [] v.kind = "str" -> v.s # ""
      [] v.kind \in {"int", "float"} -> v.n # 0
      [] OTHER -> TRUE

\* float(v) of a number.
float(v) == PyFloat(v.n)

\* a == b in Python: numbers by value, a str never equals an Enum member.
PyEq(a, b) ==
    IF a.kind \in {"int", "float"} /\ b.kind \in {"int", "float"}
    THEN a.n = b.n
    ELSE a = b

\* v > 0: only numbers are ordered against an int, None > 0 is a TypeError.
GreaterThanZero(v) ==
    IF v.kind \in {"int", "float"}
    THEN [raised |-> "", value |-> v.n > 0]
    ELSE [raised |-> "TypeError", value |-> FALSE]

JsonNull == [kind |-> "null", s |-> "", n |-> 0]

\* json.dumps of one value: an Enum member is not JSON serializable.
dumps(v) ==
    CASE v.kind = "NoneType" -> [raised |-> "", text |-> JsonNull]
      [] v.kind = "str" -> [raised |-> "", text |-> [kind |-> "string", s |-> v.s, n |-> 0]]
      [] v.kind = "int" -> [raised |-> "", text |-> [kind |-> "integer", s |-> "", n |-> v.n]]
      [] v.kind = "float" -> [raised |-> "", text |-> [kind |-> "real", s |-> "", n |-> v.n]]
      [] v.kind = "dict" -> [raised |-> "", text |-> [kind |-> "object", s |-> "", n |-> 0]]
      [] v.kind = "missing" -> [raised |-> "", text |-> Missing]
      [] OTHER -> [raised |-> "TypeError", text |-> Missing]

\* json.loads of one value.
loads(j) ==
    CASE j.kind = "null" -> PyNone
      [] j.kind = "string" -> PyStr(j.s)
      [] j.kind = "integer" -> PyInt(j.n)
      [] j.kind = "real" -> PyFloat(j.n)
      [] j.kind = "object" -> PyDict
      [] OTHER -> Missing

\* The attributes a State object may have (utils.py:27-31).
StateKeys == {"action", "amount", "receiver_id", "all_available_tokens"}

\* The dict {} and the JSON text {}.
EmptyDict == [k \in StateKeys |-> Missing]

\* State(**entries), utils.py:26-33: the defaults, then the entries.
State(entries) ==
    LET defaults == [action |-> PyStr(""), amount |-> PyNone, receiver_id |-> PyNone,
                     all_available_tokens |-> PyNone]
    IN [k \in StateKeys |-> IF entries[k].kind = "missing" THEN defaults[k] ELSE entries[k]]

\* State.to_dict, utils.py:35-36: an Enum member is replaced by its name.
to_dict(st) ==
    [k \in StateKeys |-> IF st[k].kind = "Actions" THEN PyStr(st[k].s) ELSE st[k]]

\* State.to_json, utils.py:38-39.
to_json(st) ==
    LET d == to_dict(st)
    IN IF \E k \in StateKeys : dumps(d[k]).raised # ""
       THEN [raised |-> "TypeError", text |-> EmptyDict]
       ELSE [raised |-> "", text |-> [k \in StateKeys |-> dumps(d[k]).text]]

\* State.remove_attribute, utils.py:41-45.
remove_attribute(st, key) == [st EXCEPT ![key] = Missing]

\* state.json: absent, or the text last written to it.
NoFile == [exists |-> FALSE, text |-> EmptyDict]

\* AiUtils.get_state, utils.py:261-271 (what save_state wrote always parses).
get_state(file) ==
    IF file.exists
    THEN [k \in StateKeys |-> loads(file.text[k])]
    ELSE EmptyDict

\* AiUtils.save_state, utils.py:273-276.
save_state(st) ==
    LET s1 == remove_attribute(st, "all_available_tokens")
        j == to_json(s1)
    IN [raised |-> j.raised, state |-> s1,
        file |-> [exists |-> TRUE, text |-> j.text]]

\* AiUtils.get_all_tokens, utils.py:221-225; tokens is what fetch_url gives.
get_all_tokens(st, tokens) ==
    IF st.all_available_tokens.kind = "missing" \/ ~bool(st.all_available_tokens)
    THEN [st EXCEPT !.all_available_tokens = tokens]
    ELSE st

\* agent.py:377-381, the State the run starts with.
LoadState(file) ==
    LET s0 == State(get_state(file))
        a == IF bool(s0.action) THEN Actions(s0.action)
             ELSE [raised |-> "", value |-> s0.action]
        s1 == [s0 EXCEPT !.action = a.value]
        s2 == IF bool(s1.amount) THEN [s1 EXCEPT !.amount = float(s1.amount)] ELSE s1
    IN [raised |-> a.raised, state |-> IF a.raised = "" THEN s2 ELSE s0]

\* No run of agent.py has started.
IdleTurn ==
    [pc |-> "idle", signer_private_key |-> FALSE, image_description |-> FALSE,
     first |-> FALSE, entry |-> State(EmptyDict), guard |-> State(EmptyDict),
     completion |-> FALSE, replies |-> <<>>, shown |-> FALSE, transactions |-> <<>>,
     reset_state |-> FALSE, raised |-> "", saved |-> FALSE]

DialogIdle ==
    /\ state_file = NoFile
    /\ state = State(EmptyDict)
    /\ turn = IdleTurn

---------------------------------------------------------------------------
(* retrieve_from_ipfs, part_000:99-126, and the gateway it asks.           *)

\* Status codes a response may carry, around the class boundaries (a 100
\* Continue is consumed by the HTTP client and never the final status).
StatusCodes == {101, 199, 200, 204, 299, 300, 304, 399, 400, 404, 499, 500, 503, 599}

\* response.reason, the reason phrase sent with the status.
Reason(status_code) ==
    CASE status_code = 200 -> "OK"
      [] status_code = 204 -> "No Content"
      [] status_code = 304 -> "Not Modified"
      [] status_code = 404 -> "Not Found"
      [] status_code = 500 -> "Internal Server Error"
      [] status_code = 503 -> "Service Unavailable"
      [] OTHER -> ""

\* Response bodies: the byte strings over 0x00 and 0xFF up to MaxBodyLen.
Bodies == UNION {[1..n -> {0, 255}] : n \in 0..MaxBodyLen}

\* No request was answered.
NoResponse == [transport |-> "none", status_code |-> 0, reason |-> "", content |-> <<>>]

HttpResponse(status_code, content) ==
    [transport |-> "response", status_code |-> status_code,
     reason |-> Reason(status_code), content |-> content]

\* What requests.get(gateway_url, timeout=10) meets: no answer within the
\* timeout, no connection, or a response.
GatewayResponses ==
    {[NoResponse EXCEPT !.transport = t] : t \in {"Timeout", "ConnectionError"}}
    \cup {HttpResponse(sc, b) : sc \in StatusCodes, b \in Bodies}

\* Response.ok: raise_for_status() raises for 400 <= status_code < 600 and
\* for nothing else.
ok(response) == ~(400 <= response.status_code /\ response.status_code < 600)

\* An exception leaving retrieve_from_ipfs, after `requests` GETs.
FetchRaise(exc, msg, status_code, reason, requests) ==
    [raised |-> TRUE, exc |-> exc, msg |-> msg, status_code |-> status_code,
     reason |-> reason, value |-> <<>>, requests |-> requests]

\* retrieve_from_ipfs(cid) when the gateway answers `response`.  requests
\* refuses a URL whose host starts with "." before sending anything; the
\* handler at 125-126 re-raises what it caught.
retrieve_from_ipfs(c, response) ==
    LET gateway_url == ipfs_url(c)
    IN  IF c = <<>>
        THEN FetchRaise("requests.exceptions.InvalidURL", "URL has an invalid label.",
                        0, "", <<>>)
        ELSE IF response.transport # "response"
        THEN FetchRaise("requests.exceptions." \o response.transport, "", 0, "",
                        <<gateway_url>>)
        ELSE IF ~ok(response)
        THEN FetchRaise("Exception", "Failed to retrieve file", response.status_code,
                        response.reason, <<gateway_url>>)
        ELSE [raised |-> FALSE, exc |-> "", msg |-> "", status_code |-> 0,
              reason |-> "", value |-> response.content, requests |-> <<gateway_url>>]

\* The CIDs retrieve_from_ipfs is called with.
Cids == {<<>>, <<81, 109>>, STORJ_PREFIX \o <<81, 109>>}

\* retrieve_from_ipfs has not been called.
FetchIdle ==
    /\ cid = None
    /\ fetch_result = <<>>

InitFetch ==
    /\ cid \in {Some(c) : c \in Cids}
    /\ gateway_response \in GatewayResponses
    /\ fetch_result = <<>>
    /\ ENCRYPTION_KEY = None
    /\ encrypted_data_json =
         [kind |-> "invalid", nonce |-> None, encryptedData |-> None,
          senderPublicKey |-> None]
    /\ decrypt_result = <<>>
    /\ DialogIdle
    /\ signer_private_key = None
    /\ signer_public_key = None
    /\ signer_account_id = None
    /\ commchain_agent = [created |-> FALSE, signer_public_key |-> None,
                          signer_account_id |-> None]
    /\ ledger = [t \in TaskIds |-> NoTask]
    /\ calls = [p \in Calls |-> IdleCall]
    /\ slots = {}

\* One call retrieve_from_ipfs(cid).
Fetch ==
    /\ cid.present
    /\ fetch_result = <<>>
    /\ fetch_result' = <<retrieve_from_ipfs(cid.val, gateway_response)>>
    /\ UNCHANGED <<cid, gateway_response, decryptVars, dialogVars, verifyVars>>

NextFetch == Fetch

SpecFetch == InitFetch /\ [][NextFetch]_vars

\* The state after the module is loaded: nothing decrypted, the globals
\* None (33-34), no CommchainAgent yet, no call in flight.
Loaded ==
    /\ ENCRYPTION_KEY = None
    /\ encrypted_data_json =
         [kind |-> "invalid", nonce |-> None, encryptedData |-> None,
          senderPublicKey |-> None]
    /\ decrypt_result = <<>>
    /\ DialogIdle
    /\ signer_private_key \in SignerKeys
    /\ signer_public_key = None
    /\ signer_account_id = None
    /\ commchain_agent = [created |-> FALSE, signer_public_key |-> None,
                          signer_account_id |-> None]
    /\ calls = [p \in Calls |-> IdleCall]
    /\ FetchIdle

\* One verify_task call at a time, against every ledger; the gateway holds
\* the evidence or answers 404.
Init ==
    /\ Loaded
    /\ gateway_response \in {HttpResponse(200, <<0>>), HttpResponse(404, <<>>)}
    /\ ledger \in [TaskIds -> LedgerEntries]
    /\ slots = {"call_a"}

\* Two verify_task calls that may overlap, each task absent, verified or
\* pending with the evidence "storj-Qm".
InitPair ==
    /\ Loaded
    /\ gateway_response = HttpResponse(200, <<0>>)
    /\ ledger \in [TaskIds -> {NoTask, VerifiedTask,
                               Task({"status", "evidence"}, 0, "",
                                    Some(STORJ_PREFIX \o <<81, 109>>))}]
    /\ slots = Calls

Next ==
    \/ agent
    \/ CommchainAgent_init
    \/ \E p \in Calls : verify_task(p)
    \/ \E p \in Calls : CommchainAgent_verify_task(p)
    \/ \E p \in Calls : AccountStartup(p)
    \/ \E p \in Calls : ViewFunction(p)
    \/ \E p \in Calls : CallReturn(p)

Spec == Init /\ [][Next]_vars

SpecPair == InitPair /\ [][Next]_vars

\* The contract, not the agent, records a verification: a Pending task
\* becomes Verified.
LedgerUpdate ==
    /\ slots # {}
    /\ \E t \in TaskIds :
         /\ ledger[t].exists
         /\ "status" \in ledger[t].keys
         /\ ledger[t].status = 0
         /\ ledger' = [ledger EXCEPT ![t] = VerifiedTask]
    /\ UNCHANGED <<decryptVars, fetchVars, dialogVars, signer_private_key, signer_public_key,
                   signer_account_id, commchain_agent, calls, slots>>

\* Two verify_task calls that may overlap, with a valid signer key, while
\* the ledger changes under them.
InitLedger ==
    /\ Loaded
    /\ signer_private_key = Some(ED25519_PREFIX \o Rep(49, 31) \o <<50>>)
    /\ gateway_response = HttpResponse(200, <<0>>)
    /\ ledger \in [TaskIds -> {NoTask, VerifiedTask,
                               Task({"status", "evidence"}, 0, "",
                                    Some(STORJ_PREFIX \o <<81, 109>>))}]
    /\ slots = Calls

NextLedger == Next \/ LedgerUpdate

SpecLedger == InitLedger /\ [][NextLedger]_vars

\* The agent starting with one of the extended private keys configured.
InitKey ==
    /\ ENCRYPTION_KEY = None
    /\ encrypted_data_json =
         [kind |-> "invalid", nonce |-> None, encryptedData |-> None,
          senderPublicKey |-> None]
    /\ decrypt_result = <<>>
    /\ DialogIdle
    /\ signer_private_key \in AllSignerKeys
    /\ signer_public_key = None
    /\ signer_account_id = None
    /\ commchain_agent = [created |-> FALSE, signer_public_key |-> None,
                          signer_account_id |-> None]
    /\ ledger = [t \in TaskIds |-> NoTask]
    /\ calls = [p \in Calls |-> IdleCall]
    /\ slots = {}
    /\ FetchIdle
    /\ gateway_response = NoResponse

NextKey == agent \/ CommchainAgent_init

SpecKey == InitKey /\ [][NextKey]_vars

\* Either operation on its own: verify_task calls against a ledger, or one
\* download from the gateway.
InitOps == Init \/ InitFetch

NextOps == Next \/ NextFetch

SpecOps == InitOps /\ [][NextOps]_vars

---------------------------------------------------------------------------
(* One run of src/agent.py: the module's start-up code (18, 377-381) and   *)
(* the coroutine agent(env, state) (260-367) that asyncio.run drives.      *)

\* The largest amount of NEAR a completion asks for.
MaxAmount == 1

\* What utils.parse_response returns for the completion's reply: the JSON
\* object of the prompt's OUTPUT_FORMAT, a field None when null or left out,
\* the action possibly a name that Actions does not have.
DataReplies ==
    [action : {PyNone, PyStr("NEAR_SWAP")} \cup {PyStr(a) : a \in ActionNames},
     amount : {PyNone, PyFloat(-1)} \cup {PyInt(n) : n \in 0..MaxAmount},
     receiver_id : {PyNone, PyStr(""), PyStr("alex.near")}]

\* The locals of agent(env, state) when the body starts.
Entered(st) ==
    [state |-> st, guard |-> st, completion |-> FALSE, replies |-> <<>>,
     shown |-> FALSE, transactions |-> <<>>, reset_state |-> FALSE, raised |-> ""]

\* agent.py:270-291: the image reply, or the data-collection step.
CollectData(r, image_description, data, tokens) ==
    IF image_description
    THEN [r EXCEPT !.replies = Append(@, "image"), !.reset_state = TRUE]
    ELSE IF PyEq(r.state.action, Member("GET_USER_DATA"))
         THEN LET s0 == get_all_tokens(r.state, tokens)
                  a == IF data.action.kind # "NoneType"
                       THEN Actions(data.action)
                       ELSE [raised |-> "", value |-> s0.action]
                  s1 == [s0 EXCEPT !.action = a.value]
                  s2 == IF data.amount.kind # "NoneType"
                        THEN [s1 EXCEPT !.amount = data.amount] ELSE s1
                  s3 == IF data.receiver_id.kind # "NoneType"
                        THEN [s2 EXCEPT !.receiver_id = data.receiver_id] ELSE s2
              IN IF a.raised # ""
                 THEN [r EXCEPT !.state = s0, !.completion = TRUE, !.raised = a.raised]
                 ELSE [r EXCEPT !.state = s3, !.completion = TRUE,
                                !.replies = IF PyEq(s3.action, Member("NEAR_SHOW_ACCOUNT"))
                                            THEN @ ELSE Append(@, "message")]
         ELSE r

\* agent.py:293-328: the account report; format_nfts_as_markdown indexes the
\* list of NFTs with a string (utils.py:142) and raises when there is one.
ShowAccount(r, tokens, found, has_nfts) ==
    IF r.raised # "" \/ ~PyEq(r.state.action, Member("NEAR_SHOW_ACCOUNT"))
    THEN r
    ELSE IF ~found
         THEN [r EXCEPT !.shown = TRUE, !.replies = Append(@, "not found"),
                        !.reset_state = TRUE]
         ELSE LET s0 == get_all_tokens(r.state, tokens)
              IN IF has_nfts
                 THEN [r EXCEPT !.state = s0, !.raised = "TypeError"]
                 ELSE [r EXCEPT !.state = s0, !.shown = TRUE,
                                !.replies = Append(@, "account"), !.reset_state = TRUE]

\* The test without the amount: action and receiver_id only.
ReadyAnyAmount(st, name) ==
    IF ~PyEq(st.action, Member(name))
    THEN [raised |-> "", value |-> FALSE]
    ELSE [raised |-> "", value |-> bool(st.receiver_id)]

\* agent.py:330 and 345: state.action == Actions.<name> and
\* state.receiver_id and state.amount > 0, evaluated left to right.
Ready(st, name) ==
    IF ~PyEq(st.action, Member(name))
    THEN [raised |-> "", value |-> FALSE]
    ELSE IF ~bool(st.receiver_id)
         THEN [raised |-> "", value |-> FALSE]
         ELSE GreaterThanZero(st.amount)

\* agent.py:330-343 (send_money) and 345-359 (deposit_and_stake).
Submit(r, name, method, rpc_ok) ==
    IF r.raised # ""
    THEN r
    ELSE LET ready == Ready(r.state, name)
         IN IF ready.raised # ""
            THEN [r EXCEPT !.raised = ready.raised]
            ELSE IF ~ready.value
                 THEN r
                 ELSE IF ~rpc_ok
                      THEN [r EXCEPT !.raised = "RpcError"]
                      ELSE [r EXCEPT !.transactions =
                                         Append(@, [method |-> method,
                                                    receiver_id |-> r.state.receiver_id,
                                                    amount |-> r.state.amount]),
                                     !.replies = Append(@, "transaction"),
                                     !.reset_state = TRUE]

\* The reset of the action alone: amount and receiver_id are left as they are.
ResetActionOnly(r) ==
    IF r.raised = "" /\ r.reset_state
    THEN [r EXCEPT !.state = [@ EXCEPT !.action = PyStr("GET_USER_DATA")]]
    ELSE r

\* agent.py:361-365.
Reset(r) ==
    IF r.raised = "" /\ r.reset_state
    THEN [r EXCEPT !.state = [@ EXCEPT !.action = PyStr("GET_USER_DATA"),
                                       !.amount = PyNone, !.receiver_id = PyNone]]
    ELSE r

\* The body of agent(env, state) up to save_state, agent.py:262-365.
Body(st, key, image_description, data, tokens, found, has_nfts, rpc_ok) ==
    IF ~key
    THEN [Entered(st) EXCEPT !.replies = Append(@, "add secret")]
    ELSE LET r1 == CollectData(Entered(st), image_description, data, tokens)
             r2 == ShowAccount(r1, tokens, found, has_nfts)
             r3 == [r2 EXCEPT !.guard = r2.state]
             r4 == Submit(r3, "NEAR_TRANSFER", "send_money", rpc_ok)
             r5 == Submit(r4, "NEAR_STAKE", "deposit_and_stake", rpc_ok)
         IN Reset(r5)

\* agent.py:18, 377-381: the module is loaded for one user message.
Startup ==
    /\ turn.pc \in {"idle", "exited"}
    /\ \E key \in BOOLEAN :
         LET l == LoadState(state_file)
         IN /\ state' = l.state
            /\ turn' = [IdleTurn EXCEPT !.pc = IF l.raised = "" THEN "started" ELSE "exited",
                                        !.signer_private_key = key,
                                        !.first = ~state_file.exists,
                                        !.entry = l.state, !.guard = l.state,
                                        !.raised = l.raised]
    /\ UNCHANGED <<state_file, decryptVars, fetchVars, verifyVars>>

\* agent.py:383, 260-367: asyncio.run(agent(env, state)).
DialogAgent ==
    /\ turn.pc = "started"
    /\ \E image_description, found, has_nfts, rpc_ok \in BOOLEAN :
       \E data \in DataReplies, tokens \in {PyDict, PyNone} :
         LET r == Body(state, turn.signer_private_key, image_description, data,
                       tokens, found, has_nfts, rpc_ok)
             w == save_state(r.state)
             saved == r.raised = "" /\ w.raised = ""
         IN /\ state' = IF r.raised = "" THEN w.state ELSE r.state
            /\ state_file' = IF saved THEN w.file ELSE state_file
            /\ turn' = [turn EXCEPT !.pc = "exited",
                                    !.image_description = image_description,
                                    !.guard = r.guard,
                                    !.completion = r.completion,
                                    !.replies = r.replies,
                                    !.shown = r.shown,
                                    !.transactions = r.transactions,
                                    !.reset_state = r.reset_state,
                                    !.raised = IF r.raised # "" THEN r.raised ELSE w.raised,
                                    !.saved = saved]
    /\ UNCHANGED <<decryptVars, fetchVars, verifyVars>>

\* The dialog from its first message on: no state.json yet.
InitDialog ==
    /\ ENCRYPTION_KEY = None
    /\ encrypted_data_json =
         [kind |-> "invalid", nonce |-> None, encryptedData |-> None,
          senderPublicKey |-> None]
    /\ decrypt_result = <<>>
    /\ DialogIdle
    /\ signer_private_key = None
    /\ signer_public_key = None
    /\ signer_account_id = None
    /\ commchain_agent = [created |-> FALSE, signer_public_key |-> None,
                          signer_account_id |-> None]
    /\ ledger = [t \in TaskIds |-> NoTask]
    /\ calls = [p \in Calls |-> IdleCall]
    /\ slots = {}
    /\ FetchIdle
    /\ gateway_response = NoResponse

NextDialog == Startup \/ DialogAgent

SpecDialog == InitDialog /\ [][NextDialog]_vars

---------------------------------------------------------------------------
(* Claims about verify_task, checked under Spec (one call at a time) and   *)
(* SpecPair (two overlapping calls).                                       *)

\* The ledger read of call p returned a task with this status.
ReadTaskWithStatus(p, status) ==
    /\ calls[p].looked_up
    /\ calls[p].result.exists
    /\ "status" \in calls[p].result.keys
    /\ calls[p].result.status = status

\* C1: a call that read a Pending task carrying an evidence string, and
\* failed in no stage, has run Lookup, Locate, Fetch, Decrypt and Handoff in
\* this order and returns the success outcome with the description and the
\* task identifier.
C1_PendingTaskRunsAllStages ==
    \A p \in Calls :
        (/\ calls[p].pc = "done"
         /\ ReadTaskWithStatus(p, 0)
         /\ "evidence" \in calls[p].result.keys
         /\ calls[p].result.evidence.present
         /\ calls[p].failed_stage = "") =>
            /\ calls[p].stages = <<"Lookup", "Locate", "Fetch", "Decrypt", "Handoff">>
            /\ calls[p].outcome.kind = "Task verified"
            /\ calls[p].outcome.task_id = calls[p].task_id

\* C2: once the ledger read of a call has returned a task with status 1,
\* the call has ended with the already-verified outcome carrying the stored
\* result, having run the Lookup stage and nothing after it.
C2_VerifiedShortCircuits ==
    \A p \in Calls :
        ReadTaskWithStatus(p, 1) =>
            /\ calls[p].pc = "done"
            /\ ~calls[p].raised
            /\ calls[p].outcome.kind = "Task already verified"
            /\ calls[p].outcome.result = calls[p].result.result
            /\ calls[p].outcome.task_id = calls[p].task_id
            /\ calls[p].stages = <<"Lookup">>
            /\ calls[p].net[Len(calls[p].net)] = "view_function get_task"

\* C2 witness: "01" was looked up as task 1, which is verified with result
\* "ok", and the call returned that result.
C2_Witness ==
    \E p \in Calls :
        /\ ReadTaskWithStatus(p, 1)
        /\ calls[p].task_id = <<48, 49>>
        /\ calls[p].outcome.kind = "Task already verified"
        /\ calls[p].outcome.result = "ok"

\* C3: a call whose task id the ledger does not hold returns the not-found
\* outcome and has made one network request, the ledger read.
C3_NotFoundOnlyLedgerRead ==
    \A p \in Calls :
        (calls[p].pc = "done" /\ calls[p].looked_up /\ ~calls[p].result.exists) =>
            /\ calls[p].outcome.kind = "Task not found"
            /\ calls[p].net = <<"view_function get_task">>

\* What C4 says the CID of an evidence string is: the string without its
\* leading "storj-", the string itself when it does not start with it.
C4_StripLeadingPrefix(e) ==
    IF StartsWith(e, STORJ_PREFIX) THEN SubSeq(e, Len(STORJ_PREFIX) + 1, Len(e)) ELSE e

\* C4: the URL a call returns is https://{cid}.ipfs.w3s.link where cid is
\* the evidence without its leading "storj-" and otherwise unchanged.
C4_LocatorStripsLeadingPrefixOnly ==
    \A p \in Calls :
        (calls[p].pc = "done" /\ calls[p].outcome.kind = "Task found") =>
            calls[p].outcome.url =
                HTTPS \o C4_StripLeadingPrefix(calls[p].result.evidence.val) \o IPFS_GATEWAY

OutcomeKinds ==
    {"Task not found", "Task already verified", "Task found",
     "Error processing task evidence", "Error verifying task"}

\* C5: every call that has ended has returned an outcome to its caller, no
\* exception has left verify_task, and a call that failed in some stage
\* returned one of the two error outcomes with the exception's text.
C5_EveryExitReturnsOutcome ==
    \A p \in Calls :
        calls[p].pc = "done" =>
            /\ ~calls[p].raised
            /\ calls[p].outcome.kind \in OutcomeKinds
            /\ calls[p].outcome.task_id = calls[p].task_id
            /\ calls[p].failed_stage # "" =>
                  /\ calls[p].outcome.kind \in
                        {"Error processing task evidence", "Error verifying task"}
                  /\ calls[p].outcome.error # ""

\* C5 witness: no signer key is configured, key derivation raised
\* AttributeError inside verify_task, and the call returned an outcome.
C5_Witness ==
    \E p \in Calls :
        /\ calls[p].pc = "done"
        /\ signer_private_key = None
        /\ calls[p].failed_stage = "Key"
        /\ calls[p].outcome.kind = "Error verifying task"
        /\ calls[p].outcome.error = "AttributeError"

\* The stage of the pipeline a failure belongs to: deriving the signer's
\* identity (public key, account id), reading the task from the ledger and
\* testing its status, and locating the evidence.
C6_Stage(failed_stage) ==
    CASE failed_stage \in {"Key", "Account"} -> "key handling"
      [] failed_stage \in {"Startup", "Lookup", "ShortCircuit"} -> "Lookup"
      [] OTHER -> failed_stage

\* C6: two calls that failed in different stages returned outcomes of
\* different kinds, so that the kind identifies the stage that failed.
C6_FailedStagesHaveDistinctKinds ==
    \A p, q \in Calls :
        (/\ calls[p].pc = "done" /\ calls[q].pc = "done"
         /\ calls[p].failed_stage # "" /\ calls[q].failed_stage # ""
         /\ C6_Stage(calls[p].failed_stage) # C6_Stage(calls[q].failed_stage)) =>
            calls[p].outcome.kind # calls[q].outcome.kind

\* C12: a call that read a Pending task whose evidence the gateway answers
\* with 404 has ended with the retrieval-error outcome naming status 404,
\* having run Fetch and not Decrypt; and no call runs Decrypt without a
\* Fetch before it.
C12_NotFoundEvidenceEndsInRetrievalError ==
    \A p \in Calls :
        /\ (/\ calls[p].pc = "done"
            /\ ReadTaskWithStatus(p, 0)
            /\ "evidence" \in calls[p].result.keys
            /\ calls[p].result.evidence.present
            /\ gateway_response.status_code = 404) =>
               /\ calls[p].outcome.kind = "RetrievalError"
               /\ calls[p].outcome.error = "404 Not Found"
               /\ \E i \in 1..Len(calls[p].stages) : calls[p].stages[i] = "Fetch"
               /\ \A i \in 1..Len(calls[p].stages) : calls[p].stages[i] # "Decrypt"
        /\ \A i \in 1..Len(calls[p].stages) :
               calls[p].stages[i] = "Decrypt" =>
                   \E j \in 1..(i - 1) : calls[p].stages[j] = "Fetch"

\* Call p is suspended at one of its awaits (acc.startup, acc.view_function).
Suspended(p) == calls[p].pc \in {"startup", "lookup"}

\* C17: of two verify_task calls suspended at their awaits together,
\* neither has read or written a variable the other has written.
C17_NoSharedMutableState ==
    \A p, q \in Calls :
        (p # q /\ Suspended(p) /\ Suspended(q)) =>
            (calls[p].reads \cup calls[p].writes) \cap calls[q].writes = {}

---------------------------------------------------------------------------
(* Claims about verify_task and the ledger, checked under SpecLedger.      *)

\* What the ledger holds for the id call p asks for.
LedgerNow(p) == IF calls[p].id \in TaskIds THEN ledger[calls[p].id] ELSE NoTask

\* C19: every call that has a task to work on has issued its own ledger
\* read, and the task it works on is what the ledger held at that read,
\* whatever other calls read before; a task found Verified ends the call
\* with the stored result.
C19_NoCachingAcrossCalls ==
    /\ [](\A p \in Calls :
            calls[p].looked_up =>
               /\ \E i \in 1..Len(calls[p].net) :
                     calls[p].net[i] = "view_function get_task"
               /\ ReadTaskWithStatus(p, 1) =>
                     calls[p].outcome.kind = "Task already verified")
    /\ [][\A p \in Calls :
            (~calls[p].looked_up /\ calls'[p].looked_up) =>
                calls'[p].result = LedgerNow(p)]_vars

\* C19 witness: call_a found task 1 Pending and returned its URL; the task
\* was then verified, and call_b, for the same id, found it Verified and
\* returned the stored result.
C19_Witness ==
    /\ calls["call_a"].pc = "done"
    /\ calls["call_a"].id = 1
    /\ ReadTaskWithStatus("call_a", 0)
    /\ calls["call_a"].outcome.kind = "Task found"
    /\ calls["call_b"].id = 1
    /\ ReadTaskWithStatus("call_b", 1)
    /\ calls["call_b"].outcome.kind = "Task already verified"
    /\ ledger[1] = VerifiedTask

\* Requests that read and change nothing.
ReadOnlyRequests == {"GET api.fastnear.com public_key", "view_function get_task"}

\* C20: no step of a verify_task call changes a task of the ledger, and the
\* requests a call makes are reads.
C20_PipelineOnlyReadsLedger ==
    /\ [](\A p \in Calls : \A i \in 1..Len(calls[p].net) :
             calls[p].net[i] \in ReadOnlyRequests)
    /\ [][(\E p \in Calls : calls'[p] # calls[p]) => ledger' = ledger]_vars

\* C20 witness: a call has read Pending task 1, located its evidence and
\* returned, and the ledger still holds the task as Pending.
C20_Witness ==
    \E p \in Calls :
        /\ calls[p].pc = "done"
        /\ calls[p].id = 1
        /\ ReadTaskWithStatus(p, 0)
        /\ calls[p].outcome.kind = "Task found"
        /\ ledger[1] = calls[p].result

---------------------------------------------------------------------------
(* Claim about get_public_key, checked under SpecKey.                      *)

\* The signing seed of an extended private key: the first 32 bytes of the
\* base58 decoding of what follows the algorithm prefix.
C18_Seed(k) ==
    LET rest == IF StartsWith(k, ED25519_PREFIX)
                THEN SubSeq(k, Len(ED25519_PREFIX) + 1, Len(k)) ELSE k
        d == b58decode(rest).bytes
    IN  SubSeq(d, 1, IF Len(d) < 32 THEN Len(d) ELSE 32)

\* C18: the public key derived at start-up is determined by the seed alone:
\* every extended private key with the same first 32 decoded bytes, with or
\* without prefix and whatever follows those bytes, gives this same public
\* key; and the instance derives the same key as the module did.
C18_PublicKeyDependsOnSeedOnly ==
    /\ signer_public_key.present =>
          \A k \in ExtendedKeys :
              C18_Seed(k.val) = C18_Seed(signer_private_key.val) =>
                  get_public_key(k) = [ok |-> TRUE, exc |-> "", val |-> signer_public_key.val]
    /\ (signer_public_key.present /\ commchain_agent.created) =>
          commchain_agent.signer_public_key = signer_public_key

\* C18 witness: a key of 34 decoded bytes is configured, and the public key
\* derived from it is the one of a 36-byte key with the same first 32 bytes.
C18_Witness ==
    /\ signer_private_key = Some(ED25519_PREFIX \o Rep(49, 33) \o <<51>>)
    /\ signer_public_key.present
    /\ signer_public_key.val = get_public_key(Some(Rep(49, 35) \o <<122>>)).val

---------------------------------------------------------------------------
(* Claims about retrieve_from_ipfs, checked under SpecFetch.               *)

FetchCalled == fetch_result # <<>>

\* The gateway answered the GET of this call with an HTTP response.
FetchAnswered ==
    /\ FetchCalled
    /\ cid.val # <<>>
    /\ gateway_response.transport = "response"

\* C11: a fetch the gateway answered returns the whole response body when
\* the status is 2xx, and for every other status, 1xx and 3xx included,
\* raises an error carrying the status code and the reason.
C11_SuccessExactlyOn2xx ==
    FetchAnswered =>
        IF gateway_response.status_code \in 200..299
        THEN /\ ~fetch_result[1].raised
             /\ fetch_result[1].value = gateway_response.content
        ELSE /\ fetch_result[1].raised
             /\ fetch_result[1].status_code = gateway_response.status_code
             /\ fetch_result[1].reason = gateway_response.reason

\* C13: a verify_task call issues at most one ledger read and a failed
\* ledger read ends the call with an error outcome; retrieve_from_ipfs
\* issues at most one GET, and a timeout, a connection failure or a status
\* other than 2xx makes it raise.
C13_SingleAttemptFailureTerminal ==
    /\ \A p \in Calls :
          /\ Cardinality({i \in 1..Len(calls[p].net) :
                             calls[p].net[i] = "view_function get_task"}) <= 1
          /\ calls[p].failed_stage = "Lookup" =>
                /\ calls[p].pc = "done"
                /\ calls[p].outcome.kind = "Error verifying task"
    /\ FetchCalled =>
          /\ Len(fetch_result[1].requests) <= 1
          /\ (\/ gateway_response.transport # "response"
              \/ gateway_response.status_code \notin 200..299) => fetch_result[1].raised

---------------------------------------------------------------------------
(* Inputs of decrypt_with_nacl: configured secrets and envelopes.          *)

\* Configured secrets: not configured, or an optional "b64:" prefix, a run
\* of 'A' and an optional last character '=' or U+00E9.
KeyStrings ==
    {None} \cup
    {Some(p \o Rep(65, n) \o t) :
        p \in {<<>>, B64_PREFIX}, n \in 0..MaxKeyLen, t \in {<<>>, <<61>>, <<233>>}}

\* The secret the producer encrypts for: 32 characters, used as they are.
RecipientSecret == Rep(65, PrivateKeySIZE)

SenderSecretKey == Rep(9, PrivateKeySIZE)

EnvelopeNonce == [i \in 1..NONCE_SIZE |-> i]

\* "PLAIN"
Plaintext == <<80, 76, 65, 73, 78>>

EnvelopeCiphertext ==
    BoxEncrypt(BoxSharedKey(SenderSecretKey, ScalarBase(encode_utf8(RecipientSecret))),
               EnvelopeNonce, Plaintext)

\* A field of the JSON object: absent, empty, not base64 ("A"), or the
\* base64 of the producer's value.
FieldValues(bytes) == {None, Some(<<>>), Some(<<65>>), Some(b64encode(bytes))}

Envelopes ==
    {[kind |-> "object", nonce |-> n, encryptedData |-> d, senderPublicKey |-> k] :
        n \in FieldValues(EnvelopeNonce),
        d \in FieldValues(EnvelopeCiphertext),
        k \in FieldValues(ScalarBase(SenderSecretKey))}
    \cup
    {[kind |-> j, nonce |-> None, encryptedData |-> None, senderPublicKey |-> None] :
        j \in {"invalid", "array"}}

InitDecrypt ==
    /\ ENCRYPTION_KEY \in KeyStrings
    /\ encrypted_data_json \in Envelopes
    /\ decrypt_result = <<>>
    /\ DialogIdle
    /\ signer_private_key = None
    /\ signer_public_key = None
    /\ signer_account_id = None
    /\ commchain_agent = [created |-> FALSE, signer_public_key |-> None,
                          signer_account_id |-> None]
    /\ ledger = [t \in TaskIds |-> NoTask]
    /\ calls = [p \in Calls |-> IdleCall]
    /\ slots = {}
    /\ FetchIdle
    /\ gateway_response = NoResponse

\* One call decrypt_with_nacl(encrypted_data_json).
Decrypt ==
    /\ decrypt_result = <<>>
    /\ decrypt_result' = <<decrypt_with_nacl(encrypted_data_json, ENCRYPTION_KEY)>>
    /\ UNCHANGED <<ENCRYPTION_KEY, encrypted_data_json, fetchVars, dialogVars, verifyVars>>

NextDecrypt == Decrypt

SpecDecrypt == InitDecrypt /\ [][NextDecrypt]_vars

---------------------------------------------------------------------------
(* Envelopes a producer made, and what may have happened to them on the    *)
(* way: decrypt_with_nacl called on them with a right or a wrong secret.   *)

\* Plaintexts: "PLAIN" and the byte strings over 0x00 and "P" up to
\* MaxPlainLen.
Plaintexts == {Plaintext} \cup UNION {[1..n -> {0, 80}] : n \in 0..MaxPlainLen}

\* What the producer encrypts for the recipient whose secret is
\* RecipientSecret, with its own key and the nonce n.
ProducerCiphertext(n, pt) ==
    BoxEncrypt(BoxSharedKey(SenderSecretKey, ScalarBase(encode_utf8(RecipientSecret))),
               n, pt)

\* The producer's ciphertext of every plaintext, under EnvelopeNonce.
ProducerCiphertexts ==
    [pt \in Plaintexts |-> ProducerCiphertext(EnvelopeNonce, pt)]

\* Another nonce of the right size, and one a byte short.
OtherNonce == [i \in 1..NONCE_SIZE |-> IF i = 1 THEN 2 ELSE i]

ShortNonce == SubSeq(EnvelopeNonce, 1, NONCE_SIZE - 1)

\* Another sender.
OtherSenderSecretKey == Rep(10, PrivateKeySIZE)

\* b with the byte at position i changed.
Tamper(b, i) == [b EXCEPT ![i] = (@ + 1) % 256]

\* The same base64 text with a character outside the alphabet in front.
Stray(t) == <<33>> \o t

BoxNonces ==
    {Some(b64encode(EnvelopeNonce)), Some(b64encode(OtherNonce)),
     Some(b64encode(ShortNonce)), Some(<<65>>), Some(Stray(b64encode(EnvelopeNonce)))}

BoxCiphertexts ==
    {Some(b64encode(ProducerCiphertexts[pt])) : pt \in Plaintexts}
    \cup {Some(b64encode(Tamper(EnvelopeCiphertext, 1))),
          Some(b64encode(Tamper(EnvelopeCiphertext, Len(EnvelopeCiphertext)))),
          Some(b64encode(SubSeq(EnvelopeCiphertext, 1, 3))),
          Some(<<65>>),
          Some(Stray(b64encode(EnvelopeCiphertext)))}

BoxSenderKeys ==
    {Some(b64encode(ScalarBase(SenderSecretKey))),
     Some(b64encode(ScalarBase(OtherSenderSecretKey))),
     Some(b64encode(SubSeq(ScalarBase(SenderSecretKey), 1, PublicKeySIZE - 1))),
     Some(<<65>>),
     Some(Stray(b64encode(ScalarBase(SenderSecretKey))))}

BoxEnvelopes ==
    {[kind |-> "object", nonce |-> n, encryptedData |-> d, senderPublicKey |-> k] :
        n \in BoxNonces, d \in BoxCiphertexts, k \in BoxSenderKeys}

\* The recipient's secret, another secret of the same length, and a short
\* one (which is hashed).
BoxKeyStrings == {Some(RecipientSecret), Some(Rep(66, PrivateKeySIZE)), Some(<<65>>)}

InitBox ==
    /\ ENCRYPTION_KEY \in BoxKeyStrings
    /\ encrypted_data_json \in BoxEnvelopes
    /\ decrypt_result = <<>>
    /\ DialogIdle
    /\ signer_private_key = None
    /\ signer_public_key = None
    /\ signer_account_id = None
    /\ commchain_agent = [created |-> FALSE, signer_public_key |-> None,
                          signer_account_id |-> None]
    /\ ledger = [t \in TaskIds |-> NoTask]
    /\ calls = [p \in Calls |-> IdleCall]
    /\ slots = {}
    /\ FetchIdle
    /\ gateway_response = NoResponse

SpecBox == InitBox /\ [][NextDecrypt]_vars

---------------------------------------------------------------------------
(* Claims about decrypt_with_nacl, checked under SpecDecrypt.              *)

DecryptCalled == decrypt_result # <<>>

DecryptSteps == decrypt_result[1].steps

DidStep(x) == \E i \in 1..Len(DecryptSteps) : DecryptSteps[i] = x

InvalidPayloadMsg ==
    "Invalid payload format - missing required fields for asymmetric decryption"

KeyNotFoundMsg == "Private key not found in environment variables"

\* The envelope is a JSON object from which at least one required field is
\* absent.
MissingField(e) ==
    /\ e.kind = "object"
    /\ ~(e.nonce.present /\ e.encryptedData.present /\ e.senderPublicKey.present)

\* The envelope is a JSON object carrying the three fields, none empty.
CompleteEnvelope(e) ==
    /\ e.kind = "object"
    /\ e.nonce.present /\ e.nonce.val # <<>>
    /\ e.encryptedData.present /\ e.encryptedData.val # <<>>
    /\ e.senderPublicKey.present /\ e.senderPublicKey.val # <<>>

\* C7: an envelope missing nonce, encryptedData or senderPublicKey makes
\* decrypt_with_nacl raise the invalid-payload error with nothing done but
\* parsing the JSON and testing the fields: no base64 decoding, no key
\* handling, no box, and no value returned.
C7_MissingFieldRejectedFirst ==
    (DecryptCalled /\ MissingField(encrypted_data_json)) =>
        /\ decrypt_result[1].raised
        /\ decrypt_result[1].exc = "Exception"
        /\ decrypt_result[1].msg = InvalidPayloadMsg
        /\ decrypt_result[1].value = <<>>
        /\ DecryptSteps = <<"json.loads", "check fields", "print">>

\* C7 witness: only the nonce is missing, the other two fields are valid
\* and a secret is configured; the call has raised the invalid-payload error.
C7_Witness ==
    /\ DecryptCalled
    /\ ~encrypted_data_json.nonce.present
    /\ encrypted_data_json.encryptedData = Some(b64encode(EnvelopeCiphertext))
    /\ encrypted_data_json.senderPublicKey = Some(b64encode(ScalarBase(SenderSecretKey)))
    /\ ENCRYPTION_KEY = Some(RecipientSecret)
    /\ decrypt_result[1].msg = InvalidPayloadMsg

\* C8 as stated: with no secret configured every call raises the
\* key-not-found error, whatever the envelope.
C8_Original ==
    (DecryptCalled /\ ~Truthy(ENCRYPTION_KEY)) =>
        /\ decrypt_result[1].raised
        /\ decrypt_result[1].msg = KeyNotFoundMsg

\* C8 amended: with no secret configured, every call on an envelope that is
\* a JSON object carrying non-empty nonce, encryptedData and senderPublicKey
\* raises the key-not-found error, after nothing but the JSON parse and the
\* two tests (no decoding, no cryptographic work, nothing repeated).
C8_KeyNotConfigured ==
    (DecryptCalled /\ ~Truthy(ENCRYPTION_KEY) /\ CompleteEnvelope(encrypted_data_json)) =>
        /\ decrypt_result[1].raised
        /\ decrypt_result[1].exc = "Exception"
        /\ decrypt_result[1].msg = KeyNotFoundMsg
        /\ decrypt_result[1].value = <<>>
        /\ DecryptSteps = <<"json.loads", "check fields", "check key", "print">>

\* C8 witness: no secret, the producer's valid envelope, key-not-found raised.
C8_Witness ==
    /\ DecryptCalled
    /\ ENCRYPTION_KEY = None
    /\ encrypted_data_json.kind = "object"
    /\ encrypted_data_json.nonce = Some(b64encode(EnvelopeNonce))
    /\ encrypted_data_json.encryptedData = Some(b64encode(EnvelopeCiphertext))
    /\ encrypted_data_json.senderPublicKey = Some(b64encode(ScalarBase(SenderSecretKey)))
    /\ decrypt_result[1].msg = KeyNotFoundMsg

\* What C9 says the key bytes of a configured secret are.
C9_ExpectedKeyBytes(k) ==
    IF StartsWith(k, B64_PREFIX)
    THEN b64decode(SubSeq(k, Len(B64_PREFIX) + 1, Len(k)))
    ELSE [ok |-> TRUE, exc |-> "", bytes |-> encode_utf8(k)]

\* C9: once the secret has been decoded, the key bytes are the base64
\* decoding of what follows "b64:" when the secret starts with "b64:" (and
\* decoding fails exactly when that remainder is not base64), else the raw
\* bytes of the secret.
C9_KeyBytesDecodeRemainder ==
    (DecryptCalled /\ DidStep("key decode")) =>
        LET expected == C9_ExpectedKeyBytes(ENCRYPTION_KEY.val)
        IN  IF expected.ok
            THEN /\ DidStep("PrivateKey")
                 /\ decrypt_result[1].private_key_bytes = expected.bytes
            ELSE /\ decrypt_result[1].raised
                 /\ decrypt_result[1].exc = expected.exc
                 /\ ~DidStep("PrivateKey")

\* C10: the private key is always 32 bytes; key bytes of exactly 32 bytes
\* are the private key unchanged, key bytes of any other length are
\* replaced by their SHA-256 digest.
C10_KeyNormalization ==
    (DecryptCalled /\ DidStep("PrivateKey")) =>
        LET pkb == decrypt_result[1].private_key_bytes
            pk == decrypt_result[1].private_key
        IN  /\ Len(pk) = PrivateKeySIZE
            /\ Len(pkb) = PrivateKeySIZE => (pk = pkb /\ ~DidStep("sha256"))
            /\ Len(pkb) # PrivateKeySIZE => (pk = sha256(pkb) /\ DidStep("sha256"))

\* C10 witness: a secret of 32 raw bytes became the private key unchanged.
C10_Witness ==
    /\ DecryptCalled
    /\ DidStep("PrivateKey")
    /\ ENCRYPTION_KEY = Some(RecipientSecret)
    /\ decrypt_result[1].private_key = encode_utf8(RecipientSecret)
    /\ Len(decrypt_result[1].private_key_bytes) = PrivateKeySIZE

---------------------------------------------------------------------------
(* Claims about decoding and decryption, checked under SpecBox.            *)

EnvelopeFields == {"nonce", "encryptedData", "senderPublicKey"}

\* t is base64 text: alphabet characters in groups of four, the last group
\* ending in at most two "=".
C14_ValidBase64(t) ==
    /\ Len(t) % 4 = 0
    /\ \A i \in 1..Len(t) :
          \/ IsData(t[i])
          \/ /\ t[i] = BASE64_PAD
             /\ i >= Len(t) - 1
             /\ t[Len(t)] = BASE64_PAD

\* The envelope as the producer sent it.
ProducerEnvelope ==
    [kind |-> "object",
     nonce |-> Some(b64encode(EnvelopeNonce)),
     encryptedData |-> Some(b64encode(EnvelopeCiphertext)),
     senderPublicKey |-> Some(b64encode(ScalarBase(SenderSecretKey)))]

\* What the caller of decrypt_with_nacl sees of a failure: the exception's
\* class and text.
Visible(r) == <<r.raised, r.exc, r.msg, r.count>>

\* C14: when exactly one of nonce, encryptedData and senderPublicKey is not
\* base64, the call raises a decoding error, and the error tells the field:
\* the same text in another field of the producer's envelope gives an error
\* the caller can tell from this one.
C14_DecodeErrorNamesField ==
    DecryptCalled =>
        \A f \in EnvelopeFields :
            (\A g \in EnvelopeFields :
                C14_ValidBase64(encrypted_data_json[g].val) <=> g # f) =>
                /\ decrypt_result[1].raised
                /\ decrypt_result[1].exc = "binascii.Error"
                /\ \A g \in EnvelopeFields \ {f} :
                      Visible(decrypt_with_nacl(
                                 [ProducerEnvelope EXCEPT ![g] = encrypted_data_json[f]],
                                 ENCRYPTION_KEY))
                         # Visible(decrypt_result[1])

\* The decoded fields of the envelope, when all three decode to the sizes
\* the box takes.
Decoded ==
    [nonce |-> b64decode(encrypted_data_json.nonce.val),
     encryptedData |-> b64decode(encrypted_data_json.encryptedData.val),
     senderPublicKey |-> b64decode(encrypted_data_json.senderPublicKey.val)]

WellFormed ==
    /\ \A f \in EnvelopeFields : Decoded[f].ok
    /\ Len(Decoded.nonce.bytes) = NONCE_SIZE
    /\ Len(Decoded.senderPublicKey.bytes) = PublicKeySIZE

\* The secret, the sender's key and the nonce are the ones the producer
\* encrypted with.
KeysAndNonceMatch ==
    /\ ENCRYPTION_KEY = Some(RecipientSecret)
    /\ Decoded.senderPublicKey.bytes = ScalarBase(SenderSecretKey)
    /\ Decoded.nonce.bytes = EnvelopeNonce

\* The ciphertext is one the producer made.
Untampered ==
    \E pt \in Plaintexts :
        Decoded.encryptedData.bytes = ProducerCiphertexts[pt]

DecryptionErrorSeen ==
    <<TRUE, "nacl.exceptions.CryptoError",
      "An error occurred trying to decrypt the message", 0>>

\* C15: on a well-formed envelope whose ciphertext was tampered with, or
\* whose key or nonce is not the one used to encrypt, the call raises one
\* and the same error, with the same text, and returns nothing.
C15_FailureCausesIndistinguishable ==
    (DecryptCalled /\ WellFormed /\ ~(KeysAndNonceMatch /\ Untampered)) =>
        /\ Visible(decrypt_result[1]) = DecryptionErrorSeen
        /\ decrypt_result[1].value = <<>>

\* C15 witness: the right secret, sender key and nonce, the last byte of
\* the ciphertext changed; the decryption error was raised.
C15_Witness ==
    /\ DecryptCalled
    /\ KeysAndNonceMatch
    /\ encrypted_data_json.encryptedData =
          Some(b64encode(Tamper(EnvelopeCiphertext, Len(EnvelopeCiphertext))))
    /\ Visible(decrypt_result[1]) = DecryptionErrorSeen

\* C16: the call returns the producer's plaintext, whole, when secret,
\* sender key, nonce and ciphertext are the producer's; and it returns a
\* value in no other case.
C16_RoundTripAllOrNothing ==
    DecryptCalled =>
        /\ \A pt \in Plaintexts :
              (/\ WellFormed
               /\ KeysAndNonceMatch
               /\ Decoded.encryptedData.bytes = ProducerCiphertexts[pt]) =>
                  (~decrypt_result[1].raised /\ decrypt_result[1].value = pt)
        /\ ~decrypt_result[1].raised =>
              /\ WellFormed /\ KeysAndNonceMatch /\ Untampered
              /\ decrypt_result[1].value \in Plaintexts
              /\ Decoded.encryptedData.bytes = ProducerCiphertexts[decrypt_result[1].value]

\* C16 witness: the producer's envelope for the plaintext <<80, 0>> was
\* decrypted with the recipient's secret and gave <<80, 0>>.
C16_Witness ==
    /\ DecryptCalled
    /\ ENCRYPTION_KEY = Some(RecipientSecret)
    /\ encrypted_data_json =
          [ProducerEnvelope EXCEPT !.encryptedData =
              Some(b64encode(ProducerCiphertexts[<<80, 0>>]))]
    /\ ~decrypt_result[1].raised
    /\ decrypt_result[1].value = <<80, 0>>

---------------------------------------------------------------------------
(* Claims about the dialog agent of src/agent.py.                          *)

\* C22: on the first turn of a dialog (no state.json yet), with the signer
\* key configured and no image in the message, the agent runs the
\* data-collection completion and adds a reply.
C22_FirstTurnCollectsData ==
    (/\ turn.pc = "exited"
     /\ turn.first
     /\ turn.signer_private_key
     /\ ~turn.image_description)
        => (turn.completion /\ turn.replies # <<>>)

\* A transfer or stake request that agent.py:330 and 345 will not submit: the
\* receiver_id is missing or empty, or the amount is missing or not positive.
Incomplete(st) ==
    /\ st.action \in {Member("NEAR_TRANSFER"), Member("NEAR_STAKE")}
    /\ \/ ~bool(st.receiver_id)
       \/ st.amount.kind \notin {"int", "float"}
       \/ st.amount.n <= 0

\* C21: when the persisted state holds NEAR_TRANSFER or NEAR_STAKE without a
\* receiver_id or without a positive amount, a turn with a plain text message
\* (key configured, no image) still runs the data-collection step.
C21_IncompleteRequestStillCollects ==
    (/\ turn.pc = "exited"
     /\ turn.signer_private_key
     /\ ~turn.image_description
     /\ Incomplete(turn.entry))
        => turn.completion

\* C23: a turn whose dialog state, when the submit guards are reached, has
\* action NEAR_TRANSFER or NEAR_STAKE, a non-empty receiver_id and no amount
\* completes without raising, submits no transaction and persists the state.
C23_MissingAmountCompletes ==
    (/\ turn.pc = "exited"
     /\ turn.signer_private_key
     /\ turn.guard.action \in {Member("NEAR_TRANSFER"), Member("NEAR_STAKE")}
     /\ bool(turn.guard.receiver_id)
     /\ turn.guard.amount = PyNone)
        => (turn.raised = "" /\ turn.transactions = <<>> /\ turn.saved)

\* C24: send_money is submitted only when the action is NEAR_TRANSFER, and
\* deposit_and_stake only when it is NEAR_STAKE, in both cases with a
\* non-empty receiver_id and an amount greater than zero, which are the ones
\* sent; a turn submits at most one transaction, and none when
\* signer_private_key is not configured.
C24_TransactionsGuarded ==
    /\ Len(turn.transactions) <= 1
    /\ ~turn.signer_private_key => turn.transactions = <<>>
    /\ \A i \in 1..Len(turn.transactions) :
         LET t == turn.transactions[i]
         IN /\ t.method \in {"send_money", "deposit_and_stake"}
            /\ t.method = "send_money" => turn.guard.action = Member("NEAR_TRANSFER")
            /\ t.method = "deposit_and_stake" => turn.guard.action = Member("NEAR_STAKE")
            /\ t.receiver_id = turn.guard.receiver_id
            /\ t.receiver_id.kind = "str" /\ t.receiver_id.s # ""
            /\ t.amount = turn.guard.amount
            /\ t.amount.kind \in {"int", "float"} /\ t.amount.n > 0

\* A turn whose completion supplied NEAR_STAKE, the pool and a positive
\* amount at once, and which submitted the stake.
C24_Witness ==
    /\ turn.pc = "exited"
    /\ turn.signer_private_key
    /\ Len(turn.transactions) = 1
    /\ turn.transactions[1].method = "deposit_and_stake"
    /\ turn.transactions[1].amount.n > 0
    /\ turn.completion

\* C25: after every turn that completes with the signer key configured and
\* in which an image was described, the account was shown, or a transfer or
\* stake was submitted, state.json holds action GET_USER_DATA, amount null
\* and receiver_id null.
C25_ResetAfterCompletedAction ==
    (/\ turn.pc = "exited"
     /\ turn.signer_private_key
     /\ turn.raised = ""
     /\ (turn.image_description \/ turn.shown \/ turn.transactions # <<>>))
        => (/\ state_file.exists
            /\ state_file.text.action = [kind |-> "string", s |-> "GET_USER_DATA", n |-> 0]
            /\ state_file.text.amount = JsonNull
            /\ state_file.text.receiver_id = JsonNull)

\* A completed turn that submitted a transfer of a positive amount.
C25_Witness ==
    /\ turn.pc = "exited"
    /\ turn.signer_private_key
    /\ turn.raised = ""
    /\ Len(turn.transactions) = 1
    /\ turn.transactions[1].method = "send_money"
    /\ turn.guard.amount.n > 0
    /\ state_file.text.amount = JsonNull

\* C26: for every dialog state at the end of a turn, save_state followed at
\* the next start-up by get_state and the State reconstruction yields the
\* same action as a member of Actions, the same amount and the same
\* receiver_id, and all_available_tokens is not in state.json.
C26_PersistenceRoundTrip ==
    (turn.pc = "exited" /\ turn.saved)
        => LET l == LoadState(state_file)
           IN /\ l.raised = ""
              /\ l.state.action.kind = "Actions"
              /\ l.state.action.s = state.action.s
              /\ PyEq(l.state.amount, state.amount)
              /\ l.state.receiver_id = state.receiver_id
              /\ state_file.text.all_available_tokens = Missing

=============================================================================
